---------------------------- MODULE Spec2Model ----------------------------
(***************************************************************************)
(* A model of tsh (src/tsh-lab/tshlab-handout/tsh.c): the job table, the   *)
(* read/eval loop, the foreground wait and the three signal handlers,      *)
(* together with the child processes and the signals the kernel delivers.  *)
(*                                                                         *)
(* Child pids 1..MaxPid stand for ordinary process ids (never the pid of   *)
(* init); a pid is free again once its process has been reaped.  errno is  *)
(* kept as "ECHILD" or "OTHER", the only distinction the code reads.       *)
(***************************************************************************)
EXTENDS Integers, Sequences, FiniteSets, TLC

\* ------------------------------------------------------------- bounds
\* capacity of the job table (tsh.c:32 sets 16; the model scales it down)
MAXJOBS == 4
\* the largest number of children alive at once: one more than the table holds
MaxPid == MAXJOBS + 1
\* the number of children alive at once under Spec
MaxKids == 2
\* launches stop once nextjid has grown past this
MaxJid == 5

\* ---------------------------------------------------------- constants
UNDEF == 0
FG == 1
BG == 2
ST == 3

ShellPid == 100

Pids == 1..MaxPid
Kids == 1..MaxKids
Slots == 1..MAXJOBS
Signals == {"CHLD", "INT", "TSTP"}
\* a signal set without SIGCHLD, and one with it
maskNoChld == {"INT", "TSTP"}
maskWithChld == {"CHLD", "INT", "TSTP"}
\* mask (tsh.c:243-248) and mask2 (tsh.c:244-249)
mask == {"CHLD", "INT", "TSTP"}
mask2 == {"INT", "TSTP"}

VARIABLES
    job_list,    \* struct job_t job_list[MAXJOBS], without cmdline
    nextjid,     \* int nextjid
    fg_pid,      \* int fg_pid
    tsh_pid,     \* pid_t tsh_pid
    blocked,     \* the shell's signal mask
    pending,     \* signals pending for the shell
    errno,       \* "ECHILD" or "OTHER"
    shell,       \* "running", "exited" (exit(1)) or "killed" (quit)
    pc,          \* where the main flow is: "prompt", "fgwait", "bgprint"
    cur,         \* eval's local pid while pc # "prompt"
    proc,        \* the kernel's view of each child pid
    strayed,     \* children that returned from a failed Execve into eval
    hist,        \* per child (this incarnation): what was printed and done for it
    diag,        \* the last line the shell printed, by kind
    lastcmd,     \* the last eval, when it was quit, jobs, fg or bg: <<command,
                 \* pid, signal sent or "none">>; <<>> otherwise
    listing      \* what listjobs wrote, when the last eval was jobs

vars == <<job_list, nextjid, fg_pid, tsh_pid, blocked, pending, errno, shell,
          pc, cur, proc, strayed, hist, diag, lastcmd, listing>>

\* ------------------------------------------------- job list helpers
SetMin(S) == CHOOSE x \in S : \A y \in S : x <= y
SetMax(S) == CHOOSE x \in S : \A y \in S : x >= y

clearjob == [pid |-> 0, jid |-> 0, state |-> UNDEF]

initjobs == [i \in Slots |-> clearjob]

maxjid(jl) == SetMax({0} \cup {jl[i].jid : i \in Slots})

\* addjob: [jl, nextjid, ret, full]
addjob(jl, nj, pid, state) ==
    IF pid < 1
    THEN [jl |-> jl, nextjid |-> nj, ret |-> 0, full |-> FALSE]
    ELSE IF \E i \in Slots : jl[i].pid = 0
    THEN LET i == SetMin({k \in Slots : jl[k].pid = 0})
         IN  [jl |-> [jl EXCEPT ![i] = [pid |-> pid, jid |-> nj, state |-> state]],
              nextjid |-> IF nj + 1 > MAXJOBS THEN 1 ELSE nj + 1,
              ret |-> 1, full |-> FALSE]
    ELSE [jl |-> jl, nextjid |-> nj, ret |-> 0, full |-> TRUE]

\* a deletejob that clears the slot and leaves the counter alone
deletejobKeepsCounter(jl, nj, pid) ==
    IF pid >= 1 /\ \E i \in Slots : jl[i].pid = pid
    THEN [jl |-> [jl EXCEPT ![SetMin({k \in Slots : jl[k].pid = pid})] = clearjob],
          nextjid |-> nj, ret |-> 1]
    ELSE [jl |-> jl, nextjid |-> nj, ret |-> 0]

\* deletejob: [jl, nextjid, ret]
deletejob(jl, nj, pid) ==
    IF pid < 1
    THEN [jl |-> jl, nextjid |-> nj, ret |-> 0]
    ELSE IF \E i \in Slots : jl[i].pid = pid
    THEN LET i == SetMin({k \in Slots : jl[k].pid = pid})
             cleared == [jl EXCEPT ![i] = clearjob]
         IN  [jl |-> cleared, nextjid |-> maxjid(cleared) + 1, ret |-> 1]
    ELSE [jl |-> jl, nextjid |-> nj, ret |-> 0]

pid2jid(jl, pid) ==
    IF pid < 1 THEN 0
    ELSE IF \E i \in Slots : jl[i].pid = pid
    THEN jl[SetMin({k \in Slots : jl[k].pid = pid})].jid
    ELSE 0

jid2pid(jl, jid) ==
    IF \E i \in Slots : jl[i].jid = jid
    THEN jl[SetMin({k \in Slots : jl[k].jid = jid})].pid
    ELSE 0

\* printjob, print_sigint_job and print_sigtstp_job print their line only for a
\* pid that is in the list; otherwise they print "Job not present in job list"
\* and exit(1)
JobPresent(jl, pid) == pid2jid(jl, pid) # 0

\* a change_job_state without the test of job_id against 0
change_job_stateUnchecked(jl, pid, new_state) ==
    LET job_id == pid2jid(jl, pid)
        i == SetMin({k \in Slots : jl[k].jid = job_id} \cup {MAXJOBS + 1})
    IN  [jl |-> IF i \in Slots THEN [jl EXCEPT ![i].state = new_state] ELSE jl,
         exits |-> FALSE]

\* change_job_state: [jl, exits]; the state of the FIRST slot holding the jid
change_job_state(jl, pid, new_state) ==
    LET job_id == pid2jid(jl, pid) IN
    IF job_id = 0
    THEN [jl |-> jl, exits |-> TRUE]
    ELSE LET i == SetMin({k \in Slots : jl[k].jid = job_id})
         IN  [jl |-> [jl EXCEPT ![i].state = new_state], exits |-> FALSE]

\* listjobs: one line [jid, pid, state] per slot with pid # 0, in slot order
RECURSIVE listfrom(_, _)
listfrom(jl, i) ==
    IF i > MAXJOBS THEN <<>>
    ELSE (IF jl[i].pid # 0 THEN <<jl[i]>> ELSE <<>>) \o listfrom(jl, i + 1)

listjobs(jl) == listfrom(jl, 1)

fgpid(jl) ==
    IF \E i \in Slots : jl[i].state = FG
    THEN jl[SetMin({k \in Slots : jl[k].state = FG})].pid
    ELSE 0


\* ---------------------------------------------------- the kernel's part
Zombie(pr, p) == pr[p] \in {"zexit", "zsig"}

\* the shell has at least one child (running, stopped or not yet reaped)
HasChildren(pr) == \E p \in Pids : pr[p] # "free"

\* kill(-grp, sig) as the shell calls it: [proc, chld, self, fails].
\* grp = 0 is kill(0, sig): the caller's own process group, the shell itself.
\* A child leads its own group (setpgid(0,0), tsh.c:342), which exists until
\* the child has been reaped.  grp = -1 (fg_pid after a failed fork) is
\* kill(1, sig), a signal to init, which the kernel refuses.
Kill(pr, grp, sig) ==
    IF grp = 0
    THEN [proc |-> pr, chld |-> FALSE, self |-> TRUE, fails |-> FALSE]
    ELSE IF grp \in Pids /\ pr[grp] # "free"
    THEN CASE sig = "CONT" /\ pr[grp] = "stopped" ->
                [proc |-> [pr EXCEPT ![grp] = "running"], chld |-> TRUE,
                 self |-> FALSE, fails |-> FALSE]
           [] sig = "INT" /\ pr[grp] = "running" ->
                [proc |-> [pr EXCEPT ![grp] = "zsig"], chld |-> TRUE,
                 self |-> FALSE, fails |-> FALSE]
           [] sig = "TSTP" /\ pr[grp] = "running" ->
                [proc |-> [pr EXCEPT ![grp] = "stopped"], chld |-> TRUE,
                 self |-> FALSE, fails |-> FALSE]
           [] OTHER ->
                [proc |-> pr, chld |-> FALSE, self |-> FALSE, fails |-> FALSE]
    ELSE [proc |-> pr, chld |-> FALSE, self |-> FALSE, fails |-> TRUE]

\* fg: launched as a foreground job; reg: the parent's addjob returned 1;
\* term, stop: the termination and stop notices printed for it
NoHist == [fg |-> FALSE, reg |-> FALSE, term |-> 0, stop |-> 0]

\* ------------------------------------------------------------- Init
\* main (tsh.c:137-181): handlers installed, initjobs, globals zero
Init ==
    /\ job_list = initjobs
    /\ nextjid = 1
    /\ fg_pid = 0
    /\ tsh_pid = 0
    /\ blocked = {}
    /\ pending = {}
    /\ errno = "OTHER"
    /\ shell = "running"
    /\ pc = "prompt"
    /\ cur = 0
    /\ proc = [p \in Pids |-> "free"]
    /\ strayed = {}
    /\ hist = [p \in Pids |-> NoHist]
    /\ diag = "none"
    /\ lastcmd = <<>>
    /\ listing = <<>>

AtPrompt == shell = "running" /\ pc = "prompt"

\* ------------------------------------------------- eval: early returns
\* eval on an empty line or a line parseline rejects (tsh.c:239-256)
EvalEmpty ==
    /\ AtPrompt
    /\ tsh_pid' = ShellPid
    /\ blocked' = blocked \cup mask
    /\ diag' = "none"
    /\ lastcmd' = <<>>
    /\ listing' = <<>>
    /\ UNCHANGED <<job_list, nextjid, fg_pid, pending, errno, shell, pc, cur,
                   proc, strayed, hist>>

\* eval of "quit" (tsh.c:265-267): SIGKILL to the shell's own process group
EvalQuit ==
    /\ AtPrompt
    /\ tsh_pid' = ShellPid
    /\ blocked' = blocked \cup mask
    /\ shell' = "killed"
    /\ diag' = "none"
    /\ lastcmd' = <<"quit", ShellPid, "KILL">>
    /\ listing' = <<>>
    /\ UNCHANGED <<job_list, nextjid, fg_pid, pending, errno, pc, cur,
                   proc, strayed, hist>>

\* eval of "jobs" (tsh.c:273-281)
EvalJobs ==
    /\ AtPrompt
    /\ tsh_pid' = ShellPid
    /\ blocked' = blocked \cup mask
    /\ diag' = "none"
    /\ lastcmd' = <<"jobs", 0, "none">>
    /\ listing' = listjobs(job_list)
    /\ UNCHANGED <<job_list, nextjid, fg_pid, pending, errno, shell, pc, cur,
                   proc, strayed, hist>>

\* the pid an fg/bg argument names: "%n" through jid2pid, a bare number as is
RefPid(jl, kind, n) == IF kind = "jid" THEN jid2pid(jl, n) ELSE n

\* eval of "fg <ref>" (tsh.c:288-300, then 322-326 and 407: the else-if of
\* line 326 belongs to the if of line 259, so a built-in never enters it)
EvalFg(kind, n) ==
    /\ AtPrompt
    /\ tsh_pid' = ShellPid
    /\ blocked' = blocked \cup mask
    /\ LET pid == RefPid(job_list, kind, n)
           c == change_job_state(job_list, pid, FG)
           k == Kill(proc, pid, "CONT")
       IN  IF c.exits
           THEN /\ diag' = "notpresent"
                /\ shell' = "exited"
                /\ lastcmd' = <<"fg", pid, "none">>
                /\ UNCHANGED <<job_list, proc, pending, errno>>
           ELSE /\ job_list' = c.jl
                /\ proc' = k.proc
                /\ pending' = IF k.chld THEN pending \cup {"CHLD"} ELSE pending
                /\ errno' = IF k.fails THEN "OTHER" ELSE errno
                /\ lastcmd' = <<"fg", pid, "CONT">>
                /\ diag' = "none"
                /\ shell' = shell
    /\ listing' = <<>>
    /\ UNCHANGED <<nextjid, fg_pid, pc, cur, strayed, hist>>

\* eval of "bg <ref>" (tsh.c:305-316)
EvalBg(kind, n) ==
    /\ AtPrompt
    /\ tsh_pid' = ShellPid
    /\ blocked' = blocked \cup mask
    /\ LET pid == RefPid(job_list, kind, n)
           c == change_job_state(job_list, pid, BG)
           k == Kill(proc, pid, "CONT")
       IN  IF ~JobPresent(job_list, pid)
           THEN /\ diag' = "notpresent"
                /\ shell' = "exited"
                /\ lastcmd' = <<"bg", pid, "none">>
                /\ UNCHANGED <<job_list, proc, pending, errno>>
           ELSE /\ job_list' = c.jl
                /\ proc' = k.proc
                /\ pending' = IF k.chld THEN pending \cup {"CHLD"} ELSE pending
                /\ errno' = IF k.fails THEN "OTHER" ELSE errno
                /\ lastcmd' = <<"bg", pid, "CONT">>
                /\ diag' = "none"
                /\ shell' = shell
    /\ listing' = <<>>
    /\ UNCHANGED <<nextjid, fg_pid, pc, cur, strayed, hist>>

\* ------------------------------------------------ eval: external command
\* fork picks the lowest pid no process holds
FreshPid(pr, P) == SetMin({p \in P : pr[p] = "free"})

\* eval of an external command, from the entry to the fork (tsh.c:239-256,
\* 326-364): block mask, parse, Fork.
\* P: the pids the kernel has to hand out; P = {}: fork fails and Fork
\* (tsh.c:1104-1106) returns -1.
\* execok = FALSE: execve fails in the child, Execve returns (tsh.c:1109-1111)
\* and the child goes on into the code after the if of line 340.
EvalLaunch(bg, execok, P) ==
    /\ AtPrompt
    /\ P = {} \/ \E p \in P : proc[p] = "free"
    /\ nextjid <= MaxJid
    /\ LET pid == IF P = {} THEN -1 ELSE FreshPid(proc, P)
       IN  /\ tsh_pid' = ShellPid
           /\ blocked' = blocked \cup mask
           /\ proc' = IF pid = -1 THEN proc ELSE [proc EXCEPT ![pid] = "running"]
           /\ strayed' = IF execok THEN strayed \ {pid} ELSE strayed \cup {pid}
           /\ hist' = IF pid = -1 THEN hist
                      ELSE [hist EXCEPT ![pid] = [NoHist EXCEPT !.fg = ~bg]]
           /\ pc' = IF bg THEN "forkedbg" ELSE "forkedfg"
           /\ cur' = pid
    /\ diag' = "none"
    /\ lastcmd' = <<>>
    /\ listing' = <<>>
    /\ UNCHANGED <<job_list, nextjid, fg_pid, pending, errno, shell>>

\* the parent after the fork (tsh.c:369-372, and 399 for a background job):
\* addjob, fg_pid, unblock
EvalParent ==
    /\ shell = "running"
    /\ pc \in {"forkedbg", "forkedfg"}
    /\ LET bg == pc = "forkedbg"
           job_state == IF bg THEN BG ELSE FG
           a == addjob(job_list, nextjid, cur, job_state)
       IN  /\ job_list' = a.jl
           /\ nextjid' = a.nextjid
           /\ diag' = IF a.full THEN "toomany" ELSE diag
           /\ fg_pid' = IF bg THEN fg_pid ELSE cur
           /\ blocked' = IF bg THEN blocked \ mask ELSE blocked \ mask2
           /\ pc' = IF bg THEN "bgprint" ELSE "fgwait"
           /\ hist' = IF cur \in Pids
                      THEN [hist EXCEPT ![cur].reg = (a.ret = 1)]
                      ELSE hist
    /\ UNCHANGED <<tsh_pid, pending, errno, shell, cur, proc, strayed, lastcmd,
                   listing>>

\* the background branch after the unblock (tsh.c:400): printjob, return
BgPrint ==
    /\ shell = "running"
    /\ pc = "bgprint"
    /\ IF JobPresent(job_list, cur)
       THEN /\ diag' = diag
            /\ shell' = shell
       ELSE /\ diag' = "notpresent"
            /\ shell' = "exited"
    /\ pc' = "prompt"
    /\ cur' = 0
    /\ UNCHANGED <<job_list, nextjid, fg_pid, tsh_pid, blocked, pending, errno,
                   proc, strayed, hist, lastcmd, listing>>

\* the foreground wait (tsh.c:375-396): waitpid(pid, &status, WUNTRACED)
\* returns once the child has stopped or terminated, or fails with ECHILD
\* when pid is no child of the shell.  This is the wait for pid > 0.
WaitPid ==
    /\ cur \in Pids
    /\ proc[cur] \in {"stopped", "zexit", "zsig", "free"}
    /\ pc' = "prompt"
    /\ cur' = 0
    /\ LET pid == cur
           present == JobPresent(job_list, pid)
           d == deletejob(job_list, nextjid, pid)
       IN  CASE proc[pid] = "stopped" ->
                \* check == pid, WIFSTOPPED: notice, state ST, return (line 386)
                IF present
                THEN /\ job_list' = change_job_state(job_list, pid, ST).jl
                     /\ hist' = [hist EXCEPT ![pid].stop = @ + 1]
                     /\ diag' = diag
                     /\ UNCHANGED <<nextjid, proc, strayed, errno, shell, blocked>>
                ELSE /\ diag' = "notpresent"
                     /\ shell' = "exited"
                     /\ UNCHANGED <<job_list, nextjid, proc, strayed, errno,
                                    hist, blocked>>
            [] proc[pid] = "zsig" ->
                \* check == pid, WIFSIGNALED: notice, deletejob, unblock
                /\ proc' = [proc EXCEPT ![pid] = "free"]
                /\ strayed' = strayed \ {pid}
                /\ errno' = errno
                /\ IF present
                   THEN /\ job_list' = d.jl
                        /\ nextjid' = d.nextjid
                        /\ hist' = [hist EXCEPT ![pid].term = @ + 1]
                        /\ diag' = diag
                        /\ blocked' = blocked \ mask
                        /\ shell' = shell
                   ELSE /\ diag' = "notpresent"
                        /\ shell' = "exited"
                        /\ UNCHANGED <<job_list, nextjid, blocked, hist>>
            [] proc[pid] = "zexit" ->
                /\ proc' = [proc EXCEPT ![pid] = "free"]
                /\ strayed' = strayed \ {pid}
                /\ job_list' = d.jl
                /\ nextjid' = d.nextjid
                /\ blocked' = blocked \ mask
                /\ UNCHANGED <<errno, shell, hist, diag>>
            [] proc[pid] = "free" ->
                \* check < 0 with errno = ECHILD: no notice, deletejob, unblock
                /\ errno' = "ECHILD"
                /\ job_list' = d.jl
                /\ nextjid' = d.nextjid
                /\ blocked' = blocked \ mask
                /\ UNCHANGED <<proc, strayed, shell, hist, diag>>

\* the same wait when the fork failed: waitpid(-1, &status, WUNTRACED) takes
\* any child that has terminated, or stopped without a wait having seen it;
\* then check # pid and eval goes on to deletejob(-1) and the unblock.  With
\* no child at all check = -1 = pid, and the tests of lines 381 and 389 read
\* status, which nothing has written: either may come out true, and then
\* print_sigtstp_job or print_sigint_job ends the shell.
WaitAny ==
    /\ cur = -1
    /\ pc' = "prompt"
    /\ cur' = 0
    /\ \/ /\ ~HasChildren(proc)
          /\ errno' = "ECHILD"
          /\ \E status \in {"stopped", "signaled", "exited"} :
                IF status = "exited"
                THEN /\ blocked' = blocked \ mask
                     /\ UNCHANGED <<diag, shell>>
                ELSE /\ diag' = "notpresent"
                     /\ shell' = "exited"
                     /\ blocked' = blocked
          /\ UNCHANGED <<proc, strayed>>
       \/ /\ \E q \in Pids :
                /\ Zombie(proc, q) \/ (proc[q] = "stopped" /\ hist[q].stop = 0)
                /\ proc' = IF Zombie(proc, q) THEN [proc EXCEPT ![q] = "free"]
                           ELSE proc
                /\ strayed' = IF Zombie(proc, q) THEN strayed \ {q} ELSE strayed
          /\ blocked' = blocked \ mask
          /\ UNCHANGED <<errno, diag, shell>>
    /\ UNCHANGED <<job_list, nextjid, hist>>

\* the foreground branch (tsh.c:375-396)
WaitFg ==
    /\ shell = "running"
    /\ pc = "fgwait"
    /\ WaitPid \/ WaitAny
    /\ UNCHANGED <<fg_pid, tsh_pid, pending, lastcmd, listing>>

\* ------------------------------------------------------------ handlers
\* the orders in which waitpid(-1, ...) may hand out the children in S
Orders(S) ==
    {f \in [1..Cardinality(S) -> S] : \A i, j \in 1..Cardinality(S) : f[i] = f[j] => i = j}

\* one pass of the loop of sigchld_handler (tsh.c:575-581) for child p of
\* state st = [jl, nj, proc, hist, strayed, exits]
ReapOne(st, p) ==
    LET sig == st.proc[p] = "zsig"
        d == deletejob(st.jl, st.nj, p)
        reaped == [st EXCEPT !.proc[p] = "free", !.strayed = @ \ {p}]
    IN  IF sig /\ ~JobPresent(st.jl, p)
        THEN [reaped EXCEPT !.exits = TRUE]
        ELSE [reaped EXCEPT !.jl = d.jl, !.nj = d.nextjid,
                            !.hist[p].term = IF sig THEN @ + 1 ELSE @]

RECURSIVE ReapAll(_, _)
ReapAll(st, ord) ==
    IF ord = <<>> \/ st.exits THEN st
    ELSE ReapAll(ReapOne(st, Head(ord)), Tail(ord))

\* sigchld_handler (tsh.c:569-587): reap every terminated child (no
\* WUNTRACED: a stopped child is not reported), then the errno test.  The
\* waitpid that ends the loop returns 0, leaving errno as it was, while
\* children remain, and -1 with ECHILD when there are none.
sigchld_handler ==
    /\ shell = "running"
    /\ "CHLD" \in pending \ blocked
    /\ pending' = pending \ {"CHLD"}
    /\ \E ord \in Orders({p \in Pids : Zombie(proc, p)}) :
         LET st0 == [jl |-> job_list, nj |-> nextjid, proc |-> proc,
                     hist |-> hist, strayed |-> strayed, exits |-> FALSE]
             st == ReapAll(st0, ord)
             err == IF HasChildren(st.proc) THEN errno ELSE "ECHILD"
         IN  /\ job_list' = st.jl
             /\ nextjid' = st.nj
             /\ proc' = st.proc
             /\ hist' = st.hist
             /\ strayed' = st.strayed
             /\ IF st.exits
                THEN /\ diag' = "notpresent"
                     /\ shell' = "exited"
                     /\ errno' = errno
                ELSE /\ errno' = err
                     /\ IF err # "ECHILD"
                        THEN /\ diag' = "waitpid"
                             /\ shell' = "exited"
                        ELSE /\ diag' = diag
                             /\ shell' = shell
    /\ UNCHANGED <<fg_pid, tsh_pid, blocked, pc, cur, lastcmd, listing>>

\* the branch both sigint_handler and sigtstp_handler take when
\* getpid() is tsh_pid or fg_pid: Kill(-fg_pid, sig)
Forward(sig) ==
    LET k == Kill(proc, fg_pid, sig)
    IN  /\ proc' = k.proc
        /\ pending' = ((pending \ {sig}) \cup (IF k.chld THEN {"CHLD"} ELSE {}))
                          \cup (IF k.self THEN {sig} ELSE {})
        /\ errno' = IF k.fails THEN "OTHER" ELSE errno

\* sigint_handler (tsh.c:599-613)
sigint_handler ==
    /\ shell = "running"
    /\ "INT" \in pending \ blocked
    /\ IF ShellPid = tsh_pid \/ ShellPid = fg_pid
       THEN Forward("INT")
       ELSE /\ pending' = pending \ {"INT"}
            /\ UNCHANGED <<proc, errno>>
    /\ UNCHANGED <<job_list, nextjid, fg_pid, tsh_pid, blocked, shell, pc, cur,
                   strayed, hist, diag, lastcmd, listing>>

\* sigtstp_handler (tsh.c:620-637): the else branch sends SIGTSTP to the
\* shell itself, which is caught again
sigtstp_handler ==
    /\ shell = "running"
    /\ "TSTP" \in pending \ blocked
    /\ IF ShellPid = tsh_pid \/ ShellPid = fg_pid
       THEN Forward("TSTP")
       ELSE /\ pending' = pending
            /\ UNCHANGED <<proc, errno>>
    /\ UNCHANGED <<job_list, nextjid, fg_pid, tsh_pid, blocked, shell, pc, cur,
                   strayed, hist, diag, lastcmd, listing>>

\* ------------------------------------------------------ the environment
\* ctrl-c and ctrl-z at the terminal reach the shell
CtrlC ==
    /\ shell = "running"
    /\ "INT" \notin pending
    /\ pending' = pending \cup {"INT"}
    /\ UNCHANGED <<job_list, nextjid, fg_pid, tsh_pid, blocked, errno, shell,
                   pc, cur, proc, strayed, hist, diag, lastcmd, listing>>

CtrlZ ==
    /\ shell = "running"
    /\ "TSTP" \notin pending
    /\ pending' = pending \cup {"TSTP"}
    /\ UNCHANGED <<job_list, nextjid, fg_pid, tsh_pid, blocked, errno, shell,
                   pc, cur, proc, strayed, hist, diag, lastcmd, listing>>

\* a child changes state on its own or by a signal from outside the shell;
\* the kernel posts SIGCHLD to the shell
ChildChange(p, from, to) ==
    /\ shell = "running"
    /\ proc[p] \in from
    /\ proc' = [proc EXCEPT ![p] = to]
    /\ pending' = pending \cup {"CHLD"}
    /\ UNCHANGED <<job_list, nextjid, fg_pid, tsh_pid, blocked, errno, shell,
                   pc, cur, strayed, hist, diag, lastcmd, listing>>

ChildExits(p) == ChildChange(p, {"running"}, "zexit")

ChildKilled(p) == ChildChange(p, {"running", "stopped"}, "zsig")

ChildStops(p) == ChildChange(p, {"running"}, "stopped")

\* ------------------------------------------------------------- Next
\* the arguments of fg and bg: "%n" or "n", n up to one past the largest pid
RefKinds == {"jid", "pid"}
RefNums(P) == 0..(SetMax(P) + 1)

\* the shell's own steps, with the kernel handing out the pids of P
ShellStep(P) ==
    \/ EvalEmpty
    \/ EvalQuit
    \/ EvalJobs
    \/ \E kind \in RefKinds, n \in RefNums(P) : EvalFg(kind, n)
    \/ \E kind \in RefKinds, n \in RefNums(P) : EvalBg(kind, n)
    \/ \E bg \in BOOLEAN : EvalLaunch(bg, TRUE, P)
    \/ EvalParent
    \/ BgPrint
    \/ WaitFg
    \/ sigchld_handler
    \/ sigint_handler
    \/ sigtstp_handler

EnvStep ==
    \/ CtrlC
    \/ CtrlZ
    \/ \E p \in Pids : ChildExits(p)
    \/ \E p \in Pids : ChildKilled(p)
    \/ \E p \in Pids : ChildStops(p)

Next == ShellStep(Kids) \/ EnvStep

Spec == Init /\ [][Next]_vars

\* Spec, and launches whose execve fails
NextExec == Next \/ \E bg \in BOOLEAN : EvalLaunch(bg, FALSE, Kids)

SpecExec == Init /\ [][NextExec]_vars

\* background and foreground launches of jobs that run until they exit, as
\* many at once as the table holds
NextJobs ==
    \/ \E bg \in BOOLEAN : EvalLaunch(bg, TRUE, Slots)
    \/ EvalParent
    \/ BgPrint
    \/ WaitFg
    \/ sigchld_handler
    \/ \E p \in Pids : ChildExits(p)

SpecJobs == Init /\ [][NextJobs]_vars

\* launches up to one more than the table holds; background jobs keep
\* running, the foreground job exits, is killed or is stopped
NextCap ==
    \/ \E bg \in BOOLEAN : EvalLaunch(bg, TRUE, Pids)
    \/ EvalParent
    \/ BgPrint
    \/ WaitFg
    \/ sigchld_handler
    \/ pc = "fgwait" /\ ChildExits(cur)
    \/ pc = "fgwait" /\ ChildKilled(cur)
    \/ pc = "fgwait" /\ ChildStops(cur)

SpecCap == Init /\ [][NextCap]_vars

\* launches whose fork may fail, of jobs that exit on their own
NextFork ==
    \/ \E bg \in BOOLEAN : EvalLaunch(bg, TRUE, Kids)
    \/ \E bg \in BOOLEAN : EvalLaunch(bg, TRUE, {})
    \/ EvalParent
    \/ BgPrint
    \/ WaitFg
    \/ sigchld_handler
    \/ \E p \in Pids : ChildExits(p)

SpecFork == Init /\ [][NextFork]_vars

\* jobs that exit while the shell is at the prompt, foreground jobs that exit
\* or are stopped, and bg <pid> on the jobs the table shows as stopped
NextBg ==
    \/ \E bg \in BOOLEAN : EvalLaunch(bg, TRUE, Slots)
    \/ EvalParent
    \/ BgPrint
    \/ WaitFg
    \/ sigchld_handler
    \/ pc = "prompt" /\ \E p \in Pids : ChildExits(p)
    \/ pc = "fgwait" /\ ChildExits(cur)
    \/ pc = "fgwait" /\ ChildStops(cur)
    \/ \E i \in Slots : job_list[i].state = ST /\ EvalBg("pid", job_list[i].pid)

SpecBg == Init /\ [][NextBg]_vars

\* background launches and jobs, of jobs that never terminate but may stop
NextList ==
    \/ EvalLaunch(TRUE, TRUE, Slots)
    \/ EvalParent
    \/ BgPrint
    \/ EvalJobs
    \/ sigchld_handler
    \/ \E p \in Pids : ChildStops(p)

SpecList == Init /\ [][NextList]_vars

\* launches of jobs that exit or are killed, with the kernel's pids of Kids
NextKids ==
    \/ \E bg \in BOOLEAN : EvalLaunch(bg, TRUE, Kids)
    \/ EvalParent
    \/ BgPrint
    \/ WaitFg
    \/ sigchld_handler
    \/ \E p \in Pids : ChildExits(p)
    \/ \E p \in Pids : ChildKilled(p)

SpecKids == Init /\ [][NextKids]_vars

\* what the scheduling of the shell guarantees: the main flow goes on when it
\* can (waitpid returns once the child it waits for has changed state), and
\* a pending signal that is not blocked is delivered
Fairness ==
    /\ WF_vars(EvalParent)
    /\ WF_vars(BgPrint)
    /\ WF_vars(WaitFg)
    /\ WF_vars(sigint_handler)
    /\ WF_vars(sigtstp_handler)
    /\ \/ []<>~(shell = "running" /\ "CHLD" \in pending \ blocked)
       \/ []<><<sigchld_handler>>_vars

\* launches, ctrl-c and ctrl-z, and children that exit, are killed or stop
NextWait ==
    \/ \E bg \in BOOLEAN : EvalLaunch(bg, TRUE, Kids)
    \/ EvalParent
    \/ BgPrint
    \/ WaitFg
    \/ sigchld_handler
    \/ sigint_handler
    \/ sigtstp_handler
    \/ EnvStep

SpecWait == Init /\ [][NextWait]_vars /\ Fairness


\* the same with the jobs built-in among the commands
NextReap ==
    \/ NextWait
    \/ EvalJobs

SpecReap == Init /\ [][NextReap]_vars /\ Fairness


\* jobs come and go until the counter wraps: as many pids as slots; a child
\* ends while the shell waits for a foreground job, or at the prompt once the
\* signals of the children before it have been handled
NextIds ==
    \/ \E bg \in BOOLEAN : EvalLaunch(bg, TRUE, Slots)
    \/ EvalParent
    \/ BgPrint
    \/ WaitFg
    \/ sigchld_handler
    \/ pc = "prompt" /\ pending = {} /\ \E p \in Pids : ChildExits(p)
    \/ pc = "fgwait" /\ \E p \in Pids : ChildExits(p)

SpecIds == Init /\ [][NextIds]_vars


\* two jobs launched, stopped, resumed with fg and bg, and reaped
NextSlots ==
    \/ \E bg \in BOOLEAN : EvalLaunch(bg, TRUE, Kids)
    \/ EvalParent
    \/ BgPrint
    \/ WaitFg
    \/ sigchld_handler
    \/ \E kind \in RefKinds, n \in RefNums(Kids) : EvalFg(kind, n)
    \/ \E kind \in RefKinds, n \in RefNums(Kids) : EvalBg(kind, n)
    \/ pc = "prompt" /\ \E p \in Pids : ChildExits(p)
    \/ pc = "fgwait" /\ ChildExits(cur)
    \/ pc = "fgwait" /\ ChildStops(cur)

SpecSlots == Init /\ [][NextSlots]_vars

\* ============================================================ claims
Live == {i \in Slots : job_list[i].pid # 0}

\* a step of sigchld_handler: the only step that consumes a pending SIGCHLD
HandlerStep == "CHLD" \in pending /\ "CHLD" \notin pending'

\* C1: in every reachable state the job table holds at most one entry whose
\* state is FG.
C1_AtMostOneFg ==
    Cardinality({i \in Slots : job_list[i].state = FG}) <= 1

\* C2: no two live entries of the job table have the same jid, and every
\* live jid is strictly positive.
C2_JidsUniquePositive ==
    \A i \in Live :
        /\ job_list[i].jid > 0
        /\ \A j \in Live : job_list[i].jid = job_list[j].jid => i = j

\* C3: when a job launched in the foreground is reaped after a signal
\* terminated it, its entry is gone from the table and exactly one
\* termination notice has been printed for it; no job ever gets a second one.
C3_TerminationReportedOnce ==
    [][\A p \in Pids :
         /\ hist'[p].term <= 1
         /\ (hist[p].fg /\ proc[p] = "zsig" /\ proc'[p] = "free")
                => (hist'[p].term = 1 /\ ~JobPresent(job_list', p))]_vars

\* C4: when the foreground wait sees its job stopped, eval returns to the
\* prompt with the job still in the table, state ST, same pid and jid, and
\* exactly one stop notice printed; sigchld_handler never removes a stopped job.
C4_StopRecorded ==
    [][\A p \in Pids :
         /\ (pc = "fgwait" /\ cur = p /\ proc[p] = "stopped" /\ pc' = "prompt")
                => /\ shell' = "running"
                   /\ hist'[p].stop = 1
                   /\ \E i \in Slots :
                        /\ job_list'[i].pid = p
                        /\ job_list'[i].state = ST
                        /\ job_list[i].pid = p
                        /\ job_list'[i].jid = job_list[i].jid
         /\ (HandlerStep /\ proc[p] = "stopped" /\ JobPresent(job_list, p))
                => JobPresent(job_list', p)]_vars

\* C5: whenever the shell is back at the prompt after "fg <job>" resumed an
\* existing job, that job has stopped or terminated: it is not still running.
C5_FgWaits ==
    (AtPrompt /\ lastcmd # <<>> /\ lastcmd[1] = "fg" /\ lastcmd[3] = "CONT")
        => proc[lastcmd[2]] # "running"

\* C6: whenever eval has returned to the main loop, SIGCHLD, SIGINT and
\* SIGTSTP are unblocked.
C6_PromptUnblocked ==
    AtPrompt => blocked \cap mask = {}

\* C7: a run of sigchld_handler reaps every terminated child, removes each
\* from the job table, and never terminates the shell.
C7_HandlerReapsAndReturns ==
    [][HandlerStep =>
         /\ shell' = "running"
         /\ \A p \in Pids :
              Zombie(proc, p) => (proc'[p] = "free" /\ ~JobPresent(job_list', p))]_vars

\* C8: launching a background job while the table holds MAXJOBS jobs prints
\* the capacity diagnostic and leaves the table as it was; when eval returns
\* the shell is still running and the new child is in the table or reaped.
C8_FullTableLaunchRejected ==
    [][/\ (pc = "forkedbg" /\ pc' = "bgprint" /\ Live = Slots)
            => (diag' = "toomany" /\ job_list' = job_list)
       /\ (pc = "bgprint" /\ pc' = "prompt" /\ diag = "toomany")
            => /\ shell' = "running"
               /\ job_list' = job_list
               /\ (JobPresent(job_list', cur) \/ proc'[cur] = "free")]_vars

\* C9: an fg or bg command whose reference matches no live job prints an
\* error, changes neither the table nor fg_pid, sends no signal, and the
\* shell keeps running.
C9_UnknownJobNotFatal ==
    [][(AtPrompt /\ lastcmd' # lastcmd /\ lastcmd' # <<>>
            /\ lastcmd'[1] \in {"fg", "bg"}
            /\ ~JobPresent(job_list, lastcmd'[2]))
        => /\ diag' = "notpresent"
           /\ lastcmd'[3] = "none"
           /\ job_list' = job_list
           /\ fg_pid' = fg_pid
           /\ proc' = proc
           /\ shell' = "running"]_vars

\* C10: a child whose execve failed never runs the parent-side code of eval.
C10_FailedExecNeverInShell ==
    strayed = {}

\* C11: after a failed fork eval stops: it neither sets fg_pid to the value
\* fork returned nor goes on to the foreground wait or to printjob.
C11_FailedForkFatal ==
    /\ fg_pid # -1
    /\ ~(shell = "running" /\ cur = -1 /\ pc \in {"fgwait", "bgprint"})

\* C12: the step that ends the foreground wait changes the process state of
\* no child other than the one eval waited for.
C12_FgWaitOwnPid ==
    [][(pc = "fgwait" /\ pc' = "prompt")
          => \A p \in Pids : proc'[p] # proc[p] => p = cur]_vars

\* C13: bg on a job whose entry is in state ST sets that entry's state to BG
\* and changes nothing else in the table; the job's process is not left
\* stopped, no other process is touched, and eval is back at the prompt.
C13_BgResumesThatJob ==
    [][\A i \in Slots :
         (/\ AtPrompt
          /\ ~HandlerStep
          /\ job_list[i].pid # 0
          /\ job_list[i].state = ST
          /\ lastcmd' = <<"bg", job_list[i].pid, "CONT">>
          /\ (lastcmd' # lastcmd \/ job_list' # job_list))
         => /\ job_list' = [job_list EXCEPT ![i].state = BG]
            /\ proc'[job_list[i].pid] # "stopped"
            /\ \A q \in Pids \ {job_list[i].pid} : proc'[q] = proc[q]
            /\ pc' = "prompt"
            /\ shell' = "running"]_vars

\* C14: while background jobs are launched and none terminates, the shell
\* keeps running and every jobs listing has one line per job launched so
\* far, with pairwise distinct pids.
C14_ListingGrows ==
    /\ shell = "running"
    /\ (lastcmd # <<>> /\ lastcmd[1] = "jobs")
          => /\ Len(listing) = Cardinality({p \in Pids : proc[p] # "free"})
             /\ \A i, j \in 1..Len(listing) :
                  listing[i].pid = listing[j].pid => i = j

\* C15: a background launch with room in the table registers the job with
\* state BG, and when eval gets to printjob the job's line is printed and the
\* shell returns to the prompt.
C15_BgLaunchReturns ==
    [][/\ (pc = "forkedbg" /\ pc' = "bgprint" /\ cur \in Pids /\ Live # Slots)
            => \E i \in Slots : /\ job_list'[i].pid = cur
                                /\ job_list'[i].state = BG
       /\ (pc = "bgprint" /\ pc' = "prompt" /\ cur \in Pids /\ hist[cur].reg)
            => /\ JobPresent(job_list, cur)
               /\ shell' = "running"]_vars

\* C16: whenever SIGINT or SIGTSTP is unblocked, fg_pid is 0 or the pid of
\* an entry of the table whose state is FG.
C16_FgPidNamesFgJob ==
    (shell = "running" /\ mask2 \ blocked # {})
        => \/ fg_pid = 0
           \/ \E i \in Slots : job_list[i].pid = fg_pid /\ job_list[i].state = FG

\* C17: change_job_state (through fg) and deletejob (through the foreground
\* wait), called for a pid that is not in the table, leave the table and
\* nextjid as they were, and the shell keeps running.
C17_UnknownPidIsNoOp ==
    [][/\ (AtPrompt /\ lastcmd' # lastcmd /\ lastcmd' # <<>>
             /\ lastcmd'[1] = "fg" /\ ~JobPresent(job_list, lastcmd'[2]))
            => /\ job_list' = job_list
               /\ nextjid' = nextjid
               /\ shell' = "running"
       /\ (pc = "fgwait" /\ pc' = "prompt" /\ cur \in Pids
             /\ proc[cur] \in {"zexit", "free"} /\ ~JobPresent(job_list, cur))
            => /\ job_list' = job_list
               /\ nextjid' = nextjid
               /\ shell' = "running"]_vars

\* C18: no two live entries of the job table have the same pid.
C18_PidsUnique ==
    \A i, j \in Live : job_list[i].pid = job_list[j].pid => i = j

\* C19: once quit has run, the shell is gone and no process of a job in the
\* table is running or stopped.
C19_QuitKillsJobs ==
    (lastcmd # <<>> /\ lastcmd[1] = "quit")
        => /\ shell # "running"
           /\ \A i \in Live : proc[job_list[i].pid] \notin {"running", "stopped"}

\* C20: between the fork and the parent's addjob SIGCHLD is blocked, and
\* whenever sigchld_handler reaps a child, eval has already registered it: the
\* child is not the one eval has just forked, and when its addjob succeeded
\* its entry is in the table.
C20_RegisteredBeforeReaped ==
    [][/\ (pc \in {"forkedbg", "forkedfg"}) => "CHLD" \in blocked
       /\ HandlerStep
            => \A p \in Pids :
                 (Zombie(proc, p) /\ proc'[p] = "free")
                    => /\ ~(pc \in {"forkedbg", "forkedfg"} /\ cur = p)
                       /\ hist[p].reg => JobPresent(job_list, p)]_vars

\* a background job that was registered has been reaped by sigchld_handler
\* and its entry deleted, and the shell runs on
C20_Witness ==
    /\ shell = "running"
    /\ \E p \in Pids :
         /\ hist[p].reg
         /\ ~hist[p].fg
         /\ proc[p] = "free"
         /\ ~JobPresent(job_list, p)

\* C21: while eval waits for a foreground job SIGCHLD is blocked and the
\* job's process has not been reaped by anyone else; and once the job has
\* stopped or terminated the wait returns.
C21_FgWaitNoLostWakeup ==
    /\ []((shell = "running" /\ pc = "fgwait" /\ cur \in Pids)
            => ("CHLD" \in blocked /\ proc[cur] # "free"))
    /\ (shell = "running" /\ pc = "fgwait" /\ cur \in Pids
           /\ proc[cur] \in {"stopped", "zexit", "zsig"})
         ~> (pc = "prompt")

\* a foreground job was waited for until a signal killed it, and eval is back
\* at the prompt with every signal unblocked
C21_Witness ==
    /\ AtPrompt
    /\ blocked = {}
    /\ \E p \in Pids :
         /\ fg_pid = p
         /\ hist[p].fg
         /\ hist[p].term = 1
         /\ hist[p].stop = 0
         /\ proc[p] = "free"


\* C22: whenever sigint_handler or sigtstp_handler runs while an entry of the
\* table has state FG and its process is running, the signal reaches that
\* process: SIGINT terminates it, SIGTSTP stops it.
C22_FgJobGetsSignal ==
    [][\A i \in Slots :
         (job_list[i].state = FG /\ job_list[i].pid \in Pids
              /\ proc[job_list[i].pid] = "running")
           => /\ sigint_handler => proc'[job_list[i].pid] = "zsig"
              /\ sigtstp_handler => proc'[job_list[i].pid] = "stopped"]_vars


\* C23: every job whose process has terminated is eventually removed from
\* the table, as long as the shell keeps running, whatever commands follow
\* (a built-in only, or none at all).
C23_TerminatedJobRemoved ==
    \A p \in Pids :
        (shell = "running" /\ JobPresent(job_list, p)
             /\ proc[p] \in {"zexit", "zsig", "free"})
          ~> (~JobPresent(job_list, p) \/ shell # "running")


\* C24: when the shell has handled the SIGCHLD of a tracked job whose process
\* is stopped and goes on running, the entry of that job has state ST: the
\* table does not keep showing a stopped process as BG or FG.
C24_StopRecorded ==
    [][\A p \in Pids :
         (sigchld_handler /\ shell' = "running"
              /\ proc[p] = "stopped" /\ JobPresent(job_list, p))
           => \E i \in Slots : /\ job_list'[i].pid = p
                               /\ job_list'[i].state = ST]_vars


\* C25: a step that deletes a job leaves nextjid at the largest jid of the
\* jobs that remain plus one (1 when none remains); a step that adds a job
\* gives it the jid nextjid held, and moves the counter on by one, back to 1
\* when it would exceed MAXJOBS; and nothing else changes the counter.
C25_NextJid ==
    [][LET deleted == \E i \in Live : job_list'[i].pid = 0
           added == \E i \in Slots \ Live : job_list'[i].pid # 0
           liveJids == {job_list'[i].jid : i \in {k \in Slots : job_list'[k].pid # 0}}
       IN  /\ deleted => nextjid' = (IF liveJids = {} THEN 0 ELSE SetMax(liveJids)) + 1
           /\ added => /\ \A i \in Slots \ Live :
                            job_list'[i].pid # 0 => job_list'[i].jid = nextjid
                       /\ nextjid' = IF nextjid + 1 > MAXJOBS THEN 1 ELSE nextjid + 1
           /\ nextjid' # nextjid => (deleted \/ added)]_vars

\* the counter has wrapped and a later deletejob has set it again
C25_Witness ==
    /\ nextjid = MAXJOBS + 1
    /\ \E i \in Live : job_list[i].jid = MAXJOBS
    /\ \E i \in Live : job_list[i].jid = 1
    /\ Cardinality(Live) < MAXJOBS


\* C26: every jid held by a live job lies in 1..MAXJOBS.
C26_JidWithinCapacity ==
    \A i \in Live : job_list[i].jid \in 1..MAXJOBS


\* C27: whenever sigint_handler or sigtstp_handler is about to run (its
\* signal is pending and not blocked), the kill it makes does not go to the
\* shell itself or to the shell's own process group.
C27_HandlersSpareShell ==
    \A sig \in mask2 :
        (shell = "running" /\ sig \in pending \ blocked)
          => IF ShellPid = tsh_pid \/ ShellPid = fg_pid
             THEN ~Kill(proc, fg_pid, sig).self
             ELSE sig # "TSTP"


\* C28: every slot of the table is either entirely free (pid 0, jid 0,
\* state UNDEF) or entirely in use (pid > 0, jid > 0, state FG, BG or ST).
C28_SlotsWhole ==
    \A i \in Slots :
        \/ job_list[i] = [pid |-> 0, jid |-> 0, state |-> UNDEF]
        \/ /\ job_list[i].pid > 0
           /\ job_list[i].jid > 0
           /\ job_list[i].state \in {FG, BG, ST}

\* a job that was stopped and then resumed by bg is in the table, next to a
\* slot another job has been deleted from
C28_Witness ==
    /\ \E i \in Live : /\ job_list[i].state = BG
                       /\ hist[job_list[i].pid].stop > 0
    /\ \E p \in Pids : hist[p].reg /\ \A i \in Slots : job_list[i].pid # p
    /\ lastcmd # <<>> /\ lastcmd[1] = "bg"

=============================================================================
